---- MODULE Spec2Model ----
(***************************************************************************)
(* Model of the conversational context manager of the chat backend:       *)
(* AIService (app/services/ai_service.py) and the POST /message handler   *)
(* that wraps it (app/api/routes/chat.py).                                 *)
(*                                                                         *)
(* Python strings are sequences of one-character strings, so that         *)
(* str.lower() and the `in` substring test are computed, not assumed.     *)
(* Python's None and the fixed reply texts are one-element sequences      *)
(* whose element is longer than one character: no string equals them.     *)
(*                                                                         *)
(* The event loop is single-threaded: a coroutine runs without            *)
(* interruption between two awaits.  generate_response has one await,     *)
(* the inference call, so one request is two atomic steps: everything up  *)
(* to the await, and everything after it.                                  *)
(***************************************************************************)
EXTENDS Integers, Sequences, FiniteSets, TLC

VARIABLES
    conversations,  \* AIService.conversations: id -> [messages, user_id, created_at]
    appendedBy,     \* history variable: id -> the call that appended each turn (0: before Init)
    calls,          \* one record per POST /message request, in arrival order;
                    \* invocations counts its calls of the inference client
    uuidCount,      \* number of identifiers uuid.uuid4() has returned
    clock,          \* the reading of datetime.now()
    fb              \* a message and the reply _get_fallback_response gave for it

vars == <<conversations, appendedBy, calls, uuidCount, clock, fb>>

----------------------------------------------------------------------------
(* Bounds *)

MaxCalls == 2       \* requests per behaviour
MaxPast == 6        \* exchanges already stored when SpecCtx starts
MaxTokens == 2      \* fragments per message given to the fallback responder

----------------------------------------------------------------------------
(* Values *)

None == <<"None">>
EmptyStr == <<>>

IsStr(v) == v # None

Falsy(v) == v = None \/ v = EmptyStr

Min(a, b) == IF a < b THEN a ELSE b

Max(a, b) == IF a < b THEN b ELSE a

UuidNames == <<"u1", "u2", "u3", "u4", "u5", "u6", "u7", "u8">>

\* uuid.uuid4(): the n-th identifier issued.  Identifiers issued are
\* pairwise distinct, and a client sends one only after a response returned it.
uuid4(n) == <<"uuid4", UuidNames[n]>>

ClientIds == {<<"c", "1">>}

UserIds == {"anonymous", "alice"}

\* "Hola" and "x"
Msgs == {<<"H", "o", "l", "a">>, <<"x">>}

Texts == {<<"X">>}

ErrorKinds == {"APIConnectionError", "RateLimitError", "APITimeoutError"}

----------------------------------------------------------------------------
(* _get_fallback_response *)

UpperChars == <<"A", "B", "C", "D", "E", "F", "G", "H", "I", "J", "K", "L", "M",
                "N", "O", "P", "Q", "R", "S", "T", "U", "V", "W", "X", "Y", "Z", "É">>

LowerChars == <<"a", "b", "c", "d", "e", "f", "g", "h", "i", "j", "k", "l", "m",
                "n", "o", "p", "q", "r", "s", "t", "u", "v", "w", "x", "y", "z", "é">>

LowerChar(ch) ==
    IF \E i \in 1..Len(UpperChars) : UpperChars[i] = ch
    THEN LowerChars[CHOOSE i \in 1..Len(UpperChars) : UpperChars[i] = ch]
    ELSE ch

\* str.lower()
lower(s) == [i \in 1..Len(s) |-> LowerChar(s[i])]

\* word in s
Contains(s, word) ==
    \E i \in 1..(Len(s) - Len(word) + 1) : SubSeq(s, i, i + Len(word) - 1) = word

GreetingWords ==
    << <<"h","o","l","a">>, <<"h","e","l","l","o">>, <<"h","i">>,
       <<"b","u","e","n","o","s">> >>

PricingWords ==
    << <<"p","r","e","c","i","o">>, <<"c","o","s","t","o">>,
       <<"t","a","r","i","f","a">>, <<"p","r","i","c","e">> >>

ServiceWords ==
    << <<"s","e","r","v","i","c","i","o">>, <<"l","i","m","p","i","e","z","a">>,
       <<"s","e","r","v","i","c","e">>, <<"c","l","e","a","n","i","n","g">> >>

ScheduleWords ==
    << <<"h","o","r","a","r","i","o">>, <<"h","o","r","a">>,
       <<"s","c","h","e","d","u","l","e">>, <<"t","i","m","e">> >>

ContactWords ==
    << <<"c","o","n","t","a","c","t","o">>, <<"t","e","l","é","f","o","n","o">>,
       <<"c","o","n","t","a","c","t">>, <<"p","h","o","n","e">> >>

GreetingReply == <<"¡Hola! Soy el asistente virtual de Rize Professional Cleaning. ...">>

PricingReply == <<"Nuestros precios varían según el tipo y tamaño del servicio. ...">>

ServicesReply == <<"Ofrecemos servicios de limpieza residencial, comercial, ...">>

ScheduleReply == <<"Nuestros horarios son: Lunes a Viernes de 8:00 AM a 6:00 PM, ...">>

ContactReply == <<"Puedes contactarnos para una cotización gratuita. ...">>

GenericReply == <<"Gracias por tu consulta. Soy el asistente de Rize Professional Cleaning. ...">>

\* any(word in s for word in words)
AnyIn(words, s) == \E i \in 1..Len(words) : Contains(s, words[i])

\* mutant: the keywords are tested against the message, not its lowercase form
get_fallback_response_cased(message) ==
    IF AnyIn(GreetingWords, message) THEN GreetingReply
    ELSE IF AnyIn(PricingWords, message) THEN PricingReply
    ELSE IF AnyIn(ServiceWords, message) THEN ServicesReply
    ELSE IF AnyIn(ScheduleWords, message) THEN ScheduleReply
    ELSE IF AnyIn(ContactWords, message) THEN ContactReply
    ELSE GenericReply

\* mutant: the pricing branch is tested before the greeting branch
get_fallback_response_reordered(message) ==
    LET message_lower == lower(message)
    IN  IF AnyIn(PricingWords, message_lower) THEN PricingReply
        ELSE IF AnyIn(GreetingWords, message_lower) THEN GreetingReply
        ELSE IF AnyIn(ServiceWords, message_lower) THEN ServicesReply
        ELSE IF AnyIn(ScheduleWords, message_lower) THEN ScheduleReply
        ELSE IF AnyIn(ContactWords, message_lower) THEN ContactReply
        ELSE GenericReply

get_fallback_response(message) ==
    LET message_lower == lower(message)
    IN  IF AnyIn(GreetingWords, message_lower) THEN GreetingReply
        ELSE IF AnyIn(PricingWords, message_lower) THEN PricingReply
        ELSE IF AnyIn(ServiceWords, message_lower) THEN ServicesReply
        ELSE IF AnyIn(ScheduleWords, message_lower) THEN ScheduleReply
        ELSE IF AnyIn(ContactWords, message_lower) THEN ContactReply
        ELSE GenericReply

----------------------------------------------------------------------------
(* The conversation store *)

Turn(role, content, timestamp) ==
    [role |-> role, content |-> content, timestamp |-> timestamp]

\* mutant: uuid.uuid4() evaluated once, not once per call
ResolveIdOnce(conversation_id, issued) ==
    IF Falsy(conversation_id) THEN uuid4(1) ELSE conversation_id

\* if not conversation_id: conversation_id = str(uuid.uuid4())
ResolveId(conversation_id, issued) ==
    IF Falsy(conversation_id) THEN uuid4(issued + 1) ELSE conversation_id

\* mutant: the conversation record is assigned without the membership test
EnsureConversationReset(convs, cid, user_id, now) ==
    [c \in DOMAIN convs \cup {cid} |->
        IF c = cid
        THEN [messages |-> <<>>, user_id |-> user_id, created_at |-> now]
        ELSE convs[c]]

\* mutant: an existing conversation takes the user_id of the latest caller
EnsureConversationAdopt(convs, cid, user_id, now) ==
    IF cid \in DOMAIN convs
    THEN [convs EXCEPT ![cid].user_id = user_id]
    ELSE convs @@ (cid :> [messages |-> <<>>, user_id |-> user_id, created_at |-> now])

\* if conversation_id not in self.conversations: self.conversations[...] = {...}
EnsureConversation(convs, cid, user_id, now) ==
    IF cid \in DOMAIN convs
    THEN convs
    ELSE convs @@ (cid :> [messages |-> <<>>, user_id |-> user_id, created_at |-> now])

\* mutant: every conversation record holds the same list object
AppendTurnAliased(convs, cid, turn) ==
    [c \in DOMAIN convs |-> [convs[c] EXCEPT !.messages = Append(@, turn)]]

\* self.conversations[conversation_id]["messages"].append(turn)
AppendTurn(convs, cid, turn) ==
    [convs EXCEPT ![cid].messages = Append(@, turn)]

WindowSize == 10

\* mutant: messages[:10], the first ten turns instead of the last ten
RecentMessagesFirst(messages) ==
    SubSeq(messages, 1, Min(WindowSize, Len(messages)))

\* messages[-10:]
RecentMessages(messages) ==
    SubSeq(messages, Max(1, Len(messages) - WindowSize + 1), Len(messages))

SystemPrompt ==
    [role |-> "system",
     content |-> <<"Eres un asistente virtual profesional para un negocio de limpieza ...">>]

\* mutant: the context is built before the user turn is appended
build_context_before_append(convs, cid) ==
    IF cid \in DOMAIN convs
    THEN LET earlier == SubSeq(convs[cid].messages, 1, Len(convs[cid].messages) - 1)
             recent_messages == RecentMessages(earlier)
         IN  <<SystemPrompt>> \o
             [i \in 1..Len(recent_messages) |->
                [role |-> recent_messages[i].role, content |-> recent_messages[i].content]]
    ELSE <<SystemPrompt>>

build_context(convs, cid) ==
    IF cid \in DOMAIN convs
    THEN LET recent_messages == RecentMessages(convs[cid].messages)
         IN  <<SystemPrompt>> \o
             [i \in 1..Len(recent_messages) |->
                [role |-> recent_messages[i].role, content |-> recent_messages[i].content]]
    ELSE <<SystemPrompt>>

----------------------------------------------------------------------------
(* The inference client: await self.client.chat.completions.create(...)    *)
(* either raises, or returns a response whose choices (possibly none) each *)
(* carry a message content that is a string or None.                       *)

Outcome(kind, error, choices) == [kind |-> kind, error |-> error, choices |-> choices]

Outcomes ==
    {Outcome("raise", e, <<>>) : e \in ErrorKinds}
    \cup {Outcome("response", "", ch) : ch \in {<<>>, <<None>>} \cup {<<t>> : t \in Texts}}

\* mutant: the extraction of the text raises for every response
TryRaisesAlways(outcome) == TRUE

\* the try block raises: create() raised, or response.choices[0] is an IndexError
TryRaises(outcome) == outcome.kind = "raise" \/ Len(outcome.choices) = 0

\* response.choices[0].message.content
ai_response(outcome) == outcome.choices[1]

\* history: the text the inference client generated, None when it generated none
\* (it raised, or its response had no choice, or the choice had no text)
GeneratedText(outcome) ==
    IF outcome.kind = "response" /\ Len(outcome.choices) > 0 THEN outcome.choices[1] ELSE None

----------------------------------------------------------------------------
(* POST /message *)

NoResult == [response |-> None, conversation_id |-> None, sources |-> <<>>]

NoHttp == [status |-> 0, body |-> <<>>]

\* ChatResponse(response: str, conversation_id: str, ...) validates its fields;
\* a validation error is caught by send_message and becomes a 500.
send_message_result(response_data, now) ==
    IF IsStr(response_data.response) /\ IsStr(response_data.conversation_id)
    THEN [status |-> 200,
          body |-> [response |-> response_data.response,
                    conversation_id |-> response_data.conversation_id,
                    timestamp |-> now,
                    sources |-> response_data.sources]]
    ELSE [status |-> 500, body |-> [detail |-> "Error processing message"]]

InFlightOn(cid) == {j \in DOMAIN calls : calls[j].pc = "awaiting" /\ calls[j].cid = cid}

\* send_message calls generate_response, which runs up to its await:
\* resolve the id, create the conversation, append the user turn, build the
\* context and hand it to the inference client.
Request(message, user_id, conversation_id) ==
    /\ Len(calls) < MaxCalls
    /\ LET k == Len(calls) + 1
           cid == ResolveId(conversation_id, uuidCount)
           created == EnsureConversation(conversations, cid, user_id, clock)
           stored == AppendTurn(created, cid, Turn("user", message, clock))
           others == InFlightOn(cid)
       IN  /\ conversations' = stored
           /\ appendedBy' = [c \in DOMAIN stored |->
                               IF c = cid
                               THEN (IF c \in DOMAIN appendedBy THEN appendedBy[c] ELSE <<>>)
                                    \o <<k>>
                               ELSE appendedBy[c]]
           /\ uuidCount' = IF Falsy(conversation_id) THEN uuidCount + 1 ELSE uuidCount
           /\ calls' = Append(
                 [j \in DOMAIN calls |->
                    IF j \in others THEN [calls[j] EXCEPT !.overlapped = TRUE] ELSE calls[j]],
                 [message |-> message,
                  user_id |-> user_id,
                  conversation_id |-> conversation_id,
                  cid |-> cid,
                  context |-> build_context(stored, cid),
                  pc |-> "awaiting",
                  invocations |-> 1,
                  path |-> "",
                  generated |-> None,
                  response_data |-> NoResult,
                  http |-> NoHttp,
                  overlapped |-> others # {}])
    /\ clock' = clock + 1
    /\ UNCHANGED fb

\* mutant: the except branch returns the fallback reply without storing it
FinishUnstoredFallback(k, path, generated, content) ==
    LET cid == calls[k].cid
        response_data == [response |-> content, conversation_id |-> cid, sources |-> <<>>]
    IN  /\ conversations' =
              IF path = "except"
              THEN conversations
              ELSE AppendTurn(conversations, cid, Turn("assistant", content, clock))
        /\ appendedBy' =
              IF path = "except"
              THEN appendedBy
              ELSE [appendedBy EXCEPT ![cid] = Append(@, k)]
        /\ calls' = [calls EXCEPT ![k].pc = "done",
                                  ![k].path = path,
                                  ![k].generated = generated,
                                  ![k].response_data = response_data,
                                  ![k].http = send_message_result(response_data, clock)]
        /\ clock' = clock + 1
        /\ UNCHANGED <<uuidCount, fb>>

\* mutant: the except branch calls the inference client once more before it
\* falls back
FinishRetrying(k, path, generated, content) ==
    LET cid == calls[k].cid
        response_data == [response |-> content, conversation_id |-> cid, sources |-> <<>>]
    IN  /\ conversations' = AppendTurn(conversations, cid, Turn("assistant", content, clock))
        /\ appendedBy' = [appendedBy EXCEPT ![cid] = Append(@, k)]
        /\ calls' = [calls EXCEPT ![k].pc = "done",
                                  ![k].invocations = IF path = "except" THEN @ + 1 ELSE @,
                                  ![k].path = path,
                                  ![k].generated = generated,
                                  ![k].response_data = response_data,
                                  ![k].http = send_message_result(response_data, clock)]
        /\ clock' = clock + 1
        /\ UNCHANGED <<uuidCount, fb>>

\* The rest of generate_response after the await, then the rest of send_message.
\* Neither branch calls the inference client again.
Finish(k, path, generated, content) ==
    LET cid == calls[k].cid
        response_data == [response |-> content, conversation_id |-> cid, sources |-> <<>>]
    IN  /\ conversations' = AppendTurn(conversations, cid, Turn("assistant", content, clock))
        /\ appendedBy' = [appendedBy EXCEPT ![cid] = Append(@, k)]
        /\ calls' = [calls EXCEPT ![k].pc = "done",
                                  ![k].path = path,
                                  ![k].generated = generated,
                                  ![k].response_data = response_data,
                                  ![k].http = send_message_result(response_data, clock)]
        /\ clock' = clock + 1
        /\ UNCHANGED <<uuidCount, fb>>

\* try: the call returned a response with a first choice
InferenceReturns(k, outcome) ==
    /\ k \in DOMAIN calls
    /\ calls[k].pc = "awaiting"
    /\ ~TryRaises(outcome)
    /\ Finish(k, "try", GeneratedText(outcome), ai_response(outcome))

\* except Exception: fallback
InferenceFails(k, outcome) ==
    /\ k \in DOMAIN calls
    /\ calls[k].pc = "awaiting"
    /\ TryRaises(outcome)
    /\ Finish(k, "except", GeneratedText(outcome), get_fallback_response(calls[k].message))

NoFallbackRun == [message |-> None, reply |-> None]

EmptyStore == [c \in {} |-> c]

\* what a client can send as conversation_id: nothing, the empty string, an
\* identifier of its own, or an identifier an earlier response returned
SuppliedIds ==
    {None, EmptyStr} \cup ClientIds
    \cup {calls[k].response_data.conversation_id :
             k \in {j \in DOMAIN calls : calls[j].pc = "done"}}

Init ==
    /\ conversations = EmptyStore
    /\ appendedBy = EmptyStore
    /\ calls = <<>>
    /\ uuidCount = 0
    /\ clock = 0
    /\ fb = NoFallbackRun

Next ==
    \/ \E m \in Msgs, u \in UserIds, c \in SuppliedIds : Request(m, u, c)
    \/ \E k \in 1..MaxCalls, o \in Outcomes : InferenceReturns(k, o)
    \/ \E k \in 1..MaxCalls, o \in Outcomes : InferenceFails(k, o)

Spec == Init /\ [][Next]_vars

----------------------------------------------------------------------------
(* SpecCtx: the service after n sequential exchanges on one conversation,  *)
(* so that histories longer than the context window are reached.           *)

PastId == <<"c", "1">>

PastMessage(i) == IF i % 2 = 1 THEN <<"H", "o", "l", "a">> ELSE <<"x">>

\* every third exchange was answered by the fallback responder
PastReply(i) == IF i % 3 = 0 THEN get_fallback_response(PastMessage(i)) ELSE <<"X">>

RECURSIVE PastStore(_)
\* the store after n complete generate_response calls on PastId, one at a time
PastStore(n) ==
    IF n = 0
    THEN EmptyStore
    ELSE LET before == PastStore(n - 1)
             created == EnsureConversation(before, PastId, "anonymous", 2 * (n - 1))
             asked == AppendTurn(created, PastId, Turn("user", PastMessage(n), 2 * (n - 1)))
         IN  AppendTurn(asked, PastId, Turn("assistant", PastReply(n), 2 * n - 1))

InitCtx ==
    \E n \in 0..MaxPast :
        /\ conversations = PastStore(n)
        /\ appendedBy = [c \in DOMAIN PastStore(n) |-> [i \in 1..(2 * n) |-> 0]]
        /\ calls = <<>>
        /\ uuidCount = 0
        /\ clock = 2 * n
        /\ fb = NoFallbackRun

NextCtx ==
    \/ \E m \in Msgs : Request(m, "anonymous", PastId)
    \/ \E k \in 1..MaxCalls, o \in Outcomes : InferenceReturns(k, o)
    \/ \E k \in 1..MaxCalls, o \in Outcomes : InferenceFails(k, o)

SpecCtx == InitCtx /\ [][NextCtx]_vars

----------------------------------------------------------------------------
(* SpecFallback: _get_fallback_response applied to one message.            *)

Fragments ==
    { <<"h","o","l","a">>, <<"H","O","L","A">>, <<"H","i">>, <<"h">>, <<"I">>,
      <<"p","r","e","c","i","o">>, <<"S","e","r","v","i","c","e">>,
      <<"h","o","r","a">>, <<"C","o","n","t","a","c","t">>,
      <<"T","E","L","É","F","O","N","O">>, <<"x">> }

RECURSIVE Phrases(_)
Phrases(n) ==
    IF n = 0
    THEN {<<>>}
    ELSE Phrases(n - 1) \cup {p \o f : p \in Phrases(n - 1), f \in Fragments}

FallbackInputs == Phrases(MaxTokens)

InitFallback ==
    /\ conversations = EmptyStore
    /\ appendedBy = EmptyStore
    /\ calls = <<>>
    /\ uuidCount = 0
    /\ clock = 0
    /\ fb \in {[message |-> m, reply |-> None] : m \in FallbackInputs}

ApplyFallback ==
    /\ fb.message # None
    /\ fb.reply = None
    /\ fb' = [fb EXCEPT !.reply = get_fallback_response(fb.message)]
    /\ UNCHANGED <<conversations, appendedBy, calls, uuidCount, clock>>

NextFallback == ApplyFallback

SpecFallback == InitFallback /\ [][NextFallback]_vars

----------------------------------------------------------------------------
(* Properties *)

Messages(c) == conversations[c].messages

Done == {k \in DOMAIN calls : calls[k].pc = "done"}

\* positions of the turns with the given role that call k appended to its conversation
TurnsOf(k, role) ==
    {i \in 1..Len(Messages(calls[k].cid)) :
        /\ i <= Len(appendedBy[calls[k].cid])
        /\ appendedBy[calls[k].cid][i] = k
        /\ Messages(calls[k].cid)[i].role = role}

CountRole(c, role) == Cardinality({i \in 1..Len(Messages(c)) : Messages(c)[i].role = role})

\* the messages of c are complete (user, assistant) pairs, each appended by one
\* call, possibly followed by the user turn of a call still in flight
PairShaped(c) ==
    /\ Len(appendedBy[c]) = Len(Messages(c))
    /\ \A i \in 1..Len(Messages(c)) :
          IF i % 2 = 1
          THEN /\ Messages(c)[i].role = "user"
               /\ i = Len(Messages(c)) => appendedBy[c][i] \in InFlightOn(c)
          ELSE /\ Messages(c)[i].role = "assistant"
               /\ appendedBy[c][i] = appendedBy[c][i - 1]

\* C1: on every conversation, also under concurrent calls on it, the messages
\* are a concatenation of complete (user, assistant) pairs, each pair appended
\* by one call, possibly followed by one in-flight user turn; no other call's
\* turn lands between a call's user turn and its assistant turn.
C1_PairsAtomic == \A c \in DOMAIN conversations : PairShaped(c)

\* the inference client failed for call k: it generated no text
InferenceFailed(k) == calls[k].pc = "done" /\ calls[k].generated = None

\* C2: whenever the inference call fails (error raised, timeout, malformed
\* response), generate_response returns the resolved conversation_id with
\* exactly the fallback reply for the request's message, and the call has
\* appended exactly two turns: the user turn with the message, then an
\* assistant turn holding the fallback reply.
C2_FailureFallsBack ==
    \A k \in DOMAIN calls :
        InferenceFailed(k) =>
            /\ calls[k].response_data.response = get_fallback_response(calls[k].message)
            /\ calls[k].response_data.conversation_id = calls[k].cid
            /\ Cardinality(TurnsOf(k, "user")) = 1
            /\ Cardinality(TurnsOf(k, "assistant")) = 1
            /\ \A i \in TurnsOf(k, "user"), j \in TurnsOf(k, "assistant") :
                  /\ i < j
                  /\ Messages(calls[k].cid)[i].content = calls[k].message
                  /\ Messages(calls[k].cid)[j].content =
                        get_fallback_response(calls[k].message)

\* C3: whatever the inference call's outcome, POST /message answers with a
\* success body {response: string, conversation_id, timestamp, sources: []}
\* and never with an error status.
C3_NeverErrorStatus ==
    \A k \in Done :
        /\ calls[k].http.status = 200
        /\ IsStr(calls[k].http.body.response)
        /\ calls[k].http.body.conversation_id = calls[k].cid
        /\ calls[k].http.body.sources = <<>>

\* position of the user turn of call k in its conversation
UserTurnAt(k) == CHOOSE i \in TurnsOf(k, "user") : TRUE

\* C4: the context handed to the inference client is the system prompt
\* followed by exactly the last min(10, n) of the n turns stored when it was
\* built, oldest of the window first, each reduced to {role, content}; its
\* length is 1 + min(10, n), and 11 once n >= 10.
C4_ContextWindow ==
    \A k \in DOMAIN calls :
        /\ Cardinality(TurnsOf(k, "user")) = 1
        /\ LET n == UserTurnAt(k)
               w == Min(10, n)
               ctx == calls[k].context
               ms == Messages(calls[k].cid)
           IN  /\ Len(ctx) = 1 + w
               /\ n >= 10 => Len(ctx) = 11
               /\ ctx[1] = SystemPrompt
               /\ \A j \in 1..w :
                     ctx[1 + j] = [role |-> ms[n - w + j].role,
                                   content |-> ms[n - w + j].content]

\* a context was built from a history longer than the window
C4_Witness == \E k \in DOMAIN calls : UserTurnAt(k) > 10

\* C5: messages are append-only and conversations are never removed: every
\* step leaves each conversation in the store with its old messages as a
\* prefix of its new ones.
C5_AppendOnly ==
    [][\A c \in DOMAIN conversations :
          /\ c \in DOMAIN conversations'
          /\ Len(conversations'[c].messages) >= Len(conversations[c].messages)
          /\ SubSeq(conversations'[c].messages, 1, Len(conversations[c].messages))
                = conversations[c].messages]_vars

\* a later call has appended to a conversation an earlier call created
C5_Witness ==
    \E c \in DOMAIN conversations :
        /\ Len(Messages(c)) >= 3
        /\ \E i \in 1..Len(appendedBy[c]) : appendedBy[c][i] # appendedBy[c][1]

\* C6 as stated: the returned conversation_id equals the supplied one
\* whenever one is supplied (anything but None), and is a fresh identifier of
\* a conversation this call created when none is supplied.
C6_ReturnsSupplied ==
    \A k \in Done :
        /\ calls[k].conversation_id # None =>
              calls[k].response_data.conversation_id = calls[k].conversation_id
        /\ calls[k].conversation_id = None =>
              /\ \A j \in 1..(k - 1) :
                    calls[j].cid # calls[k].response_data.conversation_id
              /\ appendedBy[calls[k].response_data.conversation_id][1] = k

\* C6 amended: the returned conversation_id equals the supplied one whenever
\* a non-empty one is supplied; when none or the empty string is supplied it
\* is a fresh identifier, different from every identifier resolved by an
\* earlier call, and the conversation it names was created by this call.
C6_ReturnsSuppliedNonEmpty ==
    \A k \in Done :
        /\ ~Falsy(calls[k].conversation_id) =>
              calls[k].response_data.conversation_id = calls[k].conversation_id
        /\ Falsy(calls[k].conversation_id) =>
              /\ \A j \in 1..(k - 1) :
                    calls[j].cid # calls[k].response_data.conversation_id
              /\ appendedBy[calls[k].response_data.conversation_id][1] = k

\* two finished calls without a conversation_id, and one with a supplied one
C6_Witness ==
    \E j \in Done, k \in Done :
        /\ j < k
        /\ Falsy(calls[j].conversation_id)
        /\ calls[k].conversation_id = None
        /\ calls[j].cid # calls[k].cid

\* C7: a returned call has left its user turn followed by an assistant turn
\* of its own, and a conversation with no call in flight has as many
\* assistant turns as user turns.
C7_NoDanglingUserTurn ==
    /\ \A k \in Done :
          \E i \in TurnsOf(k, "user"), j \in TurnsOf(k, "assistant") :
              /\ i < j
              /\ Messages(calls[k].cid)[i].content = calls[k].message
    /\ \A c \in DOMAIN conversations :
          InFlightOn(c) = {} => CountRole(c, "assistant") = CountRole(c, "user")

\* calls that overlapped on one conversation have all returned, one of them
\* through the fallback
C7_Witness ==
    \E j \in Done, k \in Done :
        /\ j # k
        /\ calls[j].cid = calls[k].cid
        /\ calls[j].overlapped
        /\ calls[k].path = "except"
        /\ InFlightOn(calls[k].cid) = {}

\* the calls that took the step: the one that arrived or the one that returned
Stepped ==
    {k \in DOMAIN calls' : k \notin DOMAIN calls \/ calls[k].pc # calls'[k].pc}

\* some call on conversation c ran while another call on c was in flight
Contended(c) == \E k \in DOMAIN calls : calls[k].cid = c /\ calls[k].overlapped

\* C8: a call changes the record of its own conversation only, and a
\* conversation whose calls never overlapped each other holds exactly one
\* user turn immediately followed by its assistant turn per call, whatever
\* calls on other conversations ran in between.
C8_Independent ==
    /\ [](\A c \in DOMAIN conversations : ~Contended(c) => PairShaped(c))
    /\ [][\A c \in DOMAIN conversations' :
             (c \notin DOMAIN conversations \/ conversations'[c] # conversations[c])
                => \E k \in Stepped : calls'[k].cid = c]_vars

\* two calls on different conversations overlapped in time and both returned
C8_Witness ==
    \E j \in Done, k \in Done :
        /\ calls[j].cid # calls[k].cid
        /\ Len(Messages(calls[j].cid)) = 2
        /\ Len(Messages(calls[k].cid)) = 2
        /\ Messages(calls[j].cid)[1].timestamp < Messages(calls[k].cid)[1].timestamp
        /\ Messages(calls[k].cid)[1].timestamp < Messages(calls[j].cid)[2].timestamp

\* C9: when the inference client generates text X, the returning step appends
\* an assistant turn with content X as the conversation's last turn and
\* returns (X, conversation_id); if no other call ran on the conversation
\* meanwhile, the turn before it is the request's user turn.
C9_SuccessStored ==
    [][\A k \in DOMAIN calls :
          (calls[k].pc = "awaiting" /\ calls'[k].pc = "done"
             /\ calls'[k].generated # None) =>
            LET c == calls[k].cid
                before == conversations[c].messages
                after == conversations'[c].messages
            IN  /\ calls'[k].response_data.response = calls'[k].generated
                /\ calls'[k].response_data.conversation_id = c
                /\ Len(after) = Len(before) + 1
                /\ after[Len(after)].role = "assistant"
                /\ after[Len(after)].content = calls'[k].generated
                /\ ~calls'[k].overlapped =>
                      /\ after[Len(after) - 1].role = "user"
                      /\ after[Len(after) - 1].content = calls[k].message
                      /\ appendedBy[c][Len(before)] = k]_vars

\* a call that ran alone on its conversation returned generated text
C9_Witness ==
    \E k \in Done : calls[k].generated # None /\ ~calls[k].overlapped

\* the keyword classes and their replies, in the order of precedence
ClassWords == <<GreetingWords, PricingWords, ServiceWords, ScheduleWords, ContactWords>>

ClassReply == <<GreetingReply, PricingReply, ServicesReply, ScheduleReply, ContactReply>>

\* word occurs in s at some offset
OccursIn(word, s) ==
    \E off \in 0..(Len(s) - Len(word)) : \A j \in 1..Len(word) : s[off + j] = word[j]

\* the classes having a keyword inside the lowercased message
Matching(message) ==
    {c \in 1..Len(ClassWords) :
        \E w \in 1..Len(ClassWords[c]) : OccursIn(ClassWords[c][w], lower(message))}

\* the lowercase form of every input
LowerOf == [m \in FallbackInputs |-> lower(m)]

\* C10: the reply is that of the first class, in the order greeting, pricing,
\* services, schedule, contact, that has a keyword inside the lowercased
\* message, the generic reply iff no class has one; messages that differ only
\* in letter case get the same reply.
C10_FallbackPrecedence ==
    fb.reply # None =>
        /\ Matching(fb.message) = {} <=> fb.reply = GenericReply
        /\ \A c \in Matching(fb.message) :
              (\A d \in Matching(fb.message) : c <= d) => fb.reply = ClassReply[c]
        /\ \A m \in FallbackInputs :
              LowerOf[m] = LowerOf[fb.message] => get_fallback_response(m) = fb.reply

\* an upper-case greeting next to a pricing keyword got the greeting reply
C10_Witness ==
    /\ fb.reply = GreetingReply
    /\ {1, 2} \subseteq Matching(fb.message)
    /\ fb.message # lower(fb.message)

\* C11: every call has invoked the inference client exactly once, whether it
\* is still waiting, has returned generated text, or has fallen back after a
\* failed attempt: there is no retry.
C11_SingleInvocation ==
    /\ \A k \in DOMAIN calls : calls[k].invocations = 1
    /\ \A k \in Done : calls[k].path = "except" => calls[k].invocations = 1

\* a call whose single attempt failed has returned the fallback reply
C11_Witness ==
    \E k \in Done :
        /\ calls[k].path = "except"
        /\ calls[k].generated = None
        /\ calls[k].response_data.response = get_fallback_response(calls[k].message)

\* C12: the context of every inference-client invocation holds a user turn,
\* and its last element is the user turn {role: user, content: m} of the
\* request that makes the invocation, whatever other calls are in flight.
C12_ContextEndsWithOwnMessage ==
    \A k \in DOMAIN calls :
        LET ctx == calls[k].context
        IN  /\ Len(ctx) >= 2
            /\ \E i \in 2..Len(ctx) : ctx[i].role = "user"
            /\ ctx[Len(ctx)] = [role |-> "user", content |-> calls[k].message]

\* a request arrived while another call on its conversation was in flight,
\* with a full window: its context ends with both calls' user turns
C12_Witness ==
    \E j \in DOMAIN calls, k \in DOMAIN calls :
        /\ j < k
        /\ calls[j].cid = calls[k].cid
        /\ calls[k].overlapped
        /\ Len(calls[k].context) = 1 + WindowSize
        /\ calls[k].context[WindowSize].role = "user"
        /\ calls[k].context[WindowSize].content = calls[j].message
        /\ calls[k].message # calls[j].message

\* C13: user_id and created_at of a conversation never change after its
\* creation, and a call arriving on an existing conversation, whatever
\* user_id it carries, changes the record only by appending its user turn.
C13_CreationFieldsFixed ==
    [][\A c \in DOMAIN conversations :
          /\ c \in DOMAIN conversations'
          /\ conversations'[c].user_id = conversations[c].user_id
          /\ conversations'[c].created_at = conversations[c].created_at
          /\ (Len(calls') > Len(calls) /\ calls'[Len(calls')].cid = c) =>
                /\ Len(conversations'[c].messages) = Len(conversations[c].messages) + 1
                /\ SubSeq(conversations'[c].messages, 1, Len(conversations[c].messages))
                      = conversations[c].messages
                /\ conversations'[c].messages[Len(conversations'[c].messages)].role = "user"
                /\ conversations'[c].messages[Len(conversations'[c].messages)].content
                      = calls'[Len(calls')].message]_vars

\* a call carrying another user_id has run on a conversation created earlier
C13_Witness ==
    \E k \in DOMAIN calls :
        /\ calls[k].user_id # conversations[calls[k].cid].user_id
        /\ conversations[calls[k].cid].created_at
              < conversations[calls[k].cid].messages[UserTurnAt(k)].timestamp

====
